---- MODULE Spec2Model ----
(***************************************************************************)
(* Duty management (src/app.py): students are distributed over dining      *)
(* tables, and a term of weeks is expanded into a weekly table rotation    *)
(* with 14 daily duties (7 days x AM/PM, two student slots each) per week. *)
(*                                                                         *)
(* The store is the SQLite database of src/app.py:12.  Each model class is *)
(* a function from the integer primary key to the row.  Dates are day      *)
(* ordinals (date + timedelta(days=n) is integer addition).  A NULL column *)
(* and Python's None are written NULL.                                     *)
(***************************************************************************)
EXTENDS Integers, Sequences, FiniteSets, TLC

VARIABLES students, tables, terms, weekly, daily, last

vars == <<students, tables, terms, weekly, daily, last>>

(***************************************************************************)
(* Bounds of the model, and the inputs the handlers are called with.       *)
(***************************************************************************)
\* primary keys grow without limit in the program; the model stops
\* allocating beyond these
MaxTableId  == 2
MaxTermId   == 2
MaxWeeklyId == 4
MaxDailyId  == 28

\* NULL / None.  Table numbers are never 0 (add_table and edit_table reject
\* "not table_number"), primary keys start at 1, and the handlers themselves
\* read a 0 as None (change_student_table line 408, update_duty line 830).
NULL == 0

\* a Student ID cell of a sheet: its text without the whitespace around it,
\* and how many blanks come before and after
Cell(lead, text, trail) == [lead |-> lead, text |-> text, trail |-> trail]

\* rows of an import sheet: Student ID, and the optional columns
SheetRow(sid, grade, gender, country) ==
  [student_id |-> Cell(0, sid, 0), grade |-> grade, gender |-> gender,
   country |-> country]

\* the row with blanks typed around its Student ID
Padded(row, lead, trail) ==
  [row EXCEPT !.student_id = Cell(lead, row.student_id.text, trail)]

\* the sheets uploaded: one row; two new students; one Student ID twice with
\* different columns; a known and a new student; Student IDs with blanks
\* around them, one of them twice
Batches ==
  { << SheetRow("S1", 7, "F", "SG") >>,
    << SheetRow("S2", 7, "M", "VN"), SheetRow("S3", NULL, "F", "VN") >>,
    << SheetRow("S1", 8, "M", "VN"), SheetRow("S1", 7, "F", "SG") >>,
    << SheetRow("S1", 7, "F", "SG"), SheetRow("S2", 7, "M", "VN") >>,
    << Padded(SheetRow("S1", 7, "F", "SG"), 0, 1), SheetRow("S2", 7, "M", "VN"),
       Padded(SheetRow("S2", 8, "F", "SG"), 1, 0) >> }

TableNumberInputs == {0, 1, 2}
\* the add_table and edit_table forms: table_number, capacity
TableForms == { <<0, 2>>, <<1, 0>>, <<1, -1>>, <<1, 2>>, <<2, 2>> }

(***************************************************************************)
(* Helpers over rows                                                       *)
(***************************************************************************)
Max(S) == CHOOSE x \in S : \A y \in S : y <= x

Min(S) == CHOOSE x \in S : \A y \in S : x <= y

\* SQLite rowid of an INTEGER PRIMARY KEY column without AUTOINCREMENT:
\* one more than the largest key in use, 1 in an empty table.  The key of a
\* deleted row is handed out again when it was the largest.
NextId(rows) == IF DOMAIN rows = {} THEN 1 ELSE Max(DOMAIN rows) + 1

\* rows without the keys in gone
Without(rows, gone) == [k \in DOMAIN rows \ gone |-> rows[k]]

\* the ascending sequence of a finite set of integers
RECURSIVE SortedSeq(_)
SortedSeq(S) == IF S = {} THEN <<>> ELSE <<Min(S)>> \o SortedSeq(S \ {Min(S)})

\* every order of the elements of S (random.shuffle)
Shuffles(S) ==
  { p \in [1..Cardinality(S) -> S] : \A x \in S : \E i \in DOMAIN p : p[i] = x }

\* Student.query.filter_by(table_number=tn): primary keys
StudentsAt(studs, tn) == { s \in DOMAIN studs : studs[s].table_number = tn }

\* Table.query.filter_by(table_number=tn): primary keys
TablesNumbered(tabs, tn) == { t \in DOMAIN tabs : tabs[t].table_number = tn }

TableNumbers(tabs) == { tabs[t].table_number : t \in DOMAIN tabs }

\* WeeklyDutyAssignment.query.filter_by(term_id=term_id): primary keys
TermWeeks(wk, term_id) == { k \in DOMAIN wk : wk[k].term_id = term_id }

\* WeeklyDutyAssignment.daily_duties: the rows that carry the week's key
DutiesOf(dd, weekly_assignment_id) ==
  { d \in DOMAIN dd : dd[d].weekly_assignment_id = weekly_assignment_id }

\* what a handler reports, kept for stating its postcondition
Report(op, arg, ret) == [op |-> op, arg |-> arg, ret |-> ret, extra |-> 0]

ReportX(op, arg, ret, extra) == [op |-> op, arg |-> arg, ret |-> ret, extra |-> extra]

(***************************************************************************)
(* Init: the empty database after db.create_all()                          *)
(***************************************************************************)
Init ==
  /\ students = <<>>
  /\ tables = <<>>
  /\ terms = <<>>
  /\ weekly = <<>>
  /\ daily = <<>>
  /\ last = Report("init", 0, "ok")

(***************************************************************************)
(* Table Distributor                                                       *)
(***************************************************************************)
GradeWeight   == 3
GenderWeight  == 2
CountryWeight == 2
JitterRange   == 2

\* the key of by_grade: "grade if student.grade else 'unknown'"
GradeKey(studs, s) == studs[s].grade

\* score of table tn for student s, without the jitter: members placed on tn
\* in this run (table_assignments[tn]) that share s's grade, gender, country
Score(studs, ta, tn, s) ==
    GradeWeight   * Cardinality({ m \in ta[tn] : studs[m].grade = studs[s].grade })
  + GenderWeight  * Cardinality({ m \in ta[tn] : studs[m].gender = studs[s].gender })
  + CountryWeight * Cardinality({ m \in ta[tn] : studs[m].country = studs[s].country })

\* best_score starting at 0 instead of float('inf'): no score is below it
BestTables_zeroinit(studs, ta, s) ==
  { tn \in DOMAIN ta : Score(studs, ta, tn, s) < 0 }

\* the tables "score + random.uniform(0, 2)" can make the lowest: the jitter
\* lies in [0, 2), so exactly those whose count is below the least count + 2
BestTables(studs, ta, s) ==
  LET least == Min({ Score(studs, ta, tn, s) : tn \in DOMAIN ta })
  IN  { tn \in DOMAIN ta : Score(studs, ta, tn, s) < least + JitterRange }

\* the greedy loop over the students in processing order, from position i:
\* every table_assignments it can end with
RECURSIVE Greedy(_, _, _, _)
Greedy(studs, order, i, ta) ==
  IF i > Len(order) THEN {ta}
  ELSE LET s == order[i]
       IN  IF DOMAIN ta = {} \/ BestTables(studs, ta, s) = {}
           THEN Greedy(studs, order, i + 1, ta)
           ELSE UNION { Greedy(studs, order, i + 1,
                               [ta EXCEPT ![tn] = @ \union {s}])
                        : tn \in BestTables(studs, ta, s) }

\* processing orders: grade groups in a shuffled order, each group shuffled
GreedyOrders(studs, U) ==
  { o \in Shuffles(U) :
      \A i, j, k \in DOMAIN o :
        (i < j /\ j < k /\ GradeKey(studs, o[i]) = GradeKey(studs, o[k]))
          => GradeKey(studs, o[j]) = GradeKey(studs, o[i]) }

Placed(ta) == UNION { ta[tn] : tn \in DOMAIN ta }

\* the round-robin fallback over table_list for the students the greedy loop
\* left out, in the shuffled order rem
Fallback(ta, tableList, rem) ==
  [tn \in DOMAIN ta |->
     ta[tn] \union { rem[idx] : idx \in { i \in DOMAIN rem :
                       tableList[((i - 1) % Len(tableList)) + 1] = tn } }]

\* lines 294-296: student.table_number = table_num for every list entry
\* a write-back that also writes the students the call did not place
WriteBack_all(studs, ta) ==
  [s \in DOMAIN studs |->
     IF \E tn \in DOMAIN ta : s \in ta[tn]
     THEN [studs[s] EXCEPT !.table_number = CHOOSE tn \in DOMAIN ta : s \in ta[tn]]
     ELSE [studs[s] EXCEPT !.table_number = NULL]]

WriteBack(studs, ta) ==
  [s \in DOMAIN studs |->
     IF \E tn \in DOMAIN ta : s \in ta[tn]
     THEN [studs[s] EXCEPT !.table_number = CHOOSE tn \in DOMAIN ta : s \in ta[tn]]
     ELSE studs[s]]

\* lines 298-300: the count runs over "students", the list of line 216
CountFor(studs, U, tn) == Cardinality({ s \in U : studs[s].table_number = tn })

Recount(studs, tabs, U) ==
  [t \in DOMAIN tabs |->
     [tabs[t] EXCEPT !.current_count = CountFor(studs, U, tabs[t].table_number)]]

\* the function without its check of line 219
NoTables_never(tabs) == FALSE

\* line 219: "if not tables"
NoTables(tabs) == DOMAIN tabs = {}

\* the function without its check of line 223
NoStudents_never(U) == FALSE

\* line 223: "if not students"
NoStudents(U) == U = {}

\* every outcome of distribute_students_to_tables_smart() on a store
distribute_students_to_tables_smart(studs, tabs) ==
  LET U == StudentsAt(studs, NULL)
      tableList == SortedSeq(TableNumbers(tabs))
      empty == [tn \in TableNumbers(tabs) |-> {}]
  IN  IF NoTables(tabs)
      THEN { [students |-> studs, tables |-> tabs, ret |-> FALSE, remaining |-> 0] }
      ELSE IF NoStudents(U)
      THEN { [students |-> studs, tables |-> tabs, ret |-> TRUE, remaining |-> 0] }
      ELSE UNION { UNION { { LET remSet == U \ Placed(ta)
                                 done == Fallback(ta, tableList, rem)
                                 st == WriteBack(studs, done)
                             IN  [students |-> st,
                                  tables |-> Recount(st, tabs, U),
                                  ret |-> TRUE,
                                  remaining |-> Cardinality(remSet)]
                             : rem \in Shuffles(U \ Placed(ta)) }
                           : ta \in Greedy(studs, order, 1, empty) }
                   : order \in GreedyOrders(studs, U) }

(***************************************************************************)
(* Student and table handlers                                              *)
(***************************************************************************)
\* a call of distribute_students_to_tables_smart() on the store as it is
distribute ==
  /\ UNCHANGED <<terms, weekly, daily>>
  /\ \E out \in distribute_students_to_tables_smart(students, tables) :
       /\ students' = out.students
       /\ tables' = out.tables
       /\ last' = ReportX("distribute", 0,
                     IF out.ret THEN "distributed" ELSE "No tables available",
                     out.remaining)

\* line 467: "str(row['Student ID']).strip()", the text without the blanks
Strip(cell) == cell.text

\* an import that never finds the Student ID
Known_never(studs, sid) == FALSE

\* lines 469-470: "Student.query.filter_by(student_id=student_id).first()"
Known(studs, sid) == \E s \in DOMAIN studs : studs[s].student_id = sid

\* lines 465-481: the rows of the sheet in order, a known Student ID skipped
\* (the query of line 469 flushes the students added so far, so it sees the
\* earlier rows of the same sheet)
RECURSIVE ImportFrom(_, _, _)
ImportFrom(studs, batch, i) ==
  IF i > Len(batch) THEN studs
  ELSE IF Known(studs, Strip(batch[i].student_id))
       THEN ImportFrom(studs, batch, i + 1)
       ELSE ImportFrom(studs @@ (NextId(studs) :>
                         [student_id |-> Strip(batch[i].student_id),
                          grade |-> batch[i].grade,
                          gender |-> batch[i].gender,
                          country |-> batch[i].country,
                          table_number |-> NULL]),
                       batch, i + 1)

upload(batch) ==
  LET imported == ImportFrom(students, batch, 1)
      count == Cardinality(DOMAIN imported) - Cardinality(DOMAIN students)
  IN  /\ IF DOMAIN tables # {}
         THEN \E out \in distribute_students_to_tables_smart(imported, tables) :
                /\ students' = out.students
                /\ tables' = out.tables
                /\ last' = [op |-> "upload", arg |-> count, ret |-> "distributed",
                            extra |-> out.remaining, batch |-> batch]
         ELSE /\ students' = imported
              /\ tables' = tables
              /\ last' = [op |-> "upload", arg |-> count, ret |-> "imported",
                          extra |-> 0, batch |-> batch]
      /\ UNCHANGED <<terms, weekly, daily>>

add_table(table_number, capacity) ==
  /\ UNCHANGED <<students, terms, weekly, daily>>
  /\ IF table_number = 0 \/ capacity = 0
     THEN /\ tables' = tables
          /\ last' = Report("add_table", table_number, "required")
     ELSE IF capacity <= 0
     THEN /\ tables' = tables
          /\ last' = Report("add_table", table_number, "capacity")
     ELSE IF TablesNumbered(tables, table_number) # {}
     THEN /\ tables' = tables
          /\ last' = Report("add_table", table_number, "exists")
     ELSE /\ NextId(tables) <= MaxTableId
          /\ tables' = tables @@ (NextId(tables) :>
                         [table_number |-> table_number,
                          capacity |-> capacity,
                          current_count |-> 0])
          /\ last' = Report("add_table", table_number, "ok")

change_student_table(student_id, new_table_number) ==
  LET old_table_number == students[student_id].table_number
      moved == [students EXCEPT ![student_id].table_number = new_table_number]
      Refresh(tabs, tn) ==
        [t \in DOMAIN tabs |->
           IF tn # 0 /\ tabs[t].table_number = tn
           THEN [tabs[t] EXCEPT !.current_count = Cardinality(StudentsAt(moved, tn))]
           ELSE tabs[t]]
  IN  /\ student_id \in DOMAIN students
      /\ UNCHANGED <<terms, weekly, daily>>
      /\ IF new_table_number # 0 /\ TablesNumbered(tables, new_table_number) = {}
         THEN /\ UNCHANGED <<students, tables>>
              /\ last' = Report("change_student_table", 0, "no table")
         ELSE /\ students' = moved
              /\ tables' = Refresh(Refresh(tables, old_table_number), new_table_number)
              /\ last' = Report("change_student_table", 0, "ok")

edit_table(id, new_table_number, new_capacity) ==
  LET old == tables[id].table_number
      moved == [s \in DOMAIN students |->
                  IF new_table_number # old /\ students[s].table_number = old
                  THEN [students[s] EXCEPT !.table_number = new_table_number]
                  ELSE students[s]]
  IN  /\ id \in DOMAIN tables
      /\ UNCHANGED <<terms, weekly, daily>>
      /\ IF new_table_number = 0 \/ new_capacity = 0
         THEN /\ UNCHANGED <<students, tables>>
              /\ last' = Report("edit_table", id, "required")
         ELSE IF new_capacity <= 0
         THEN /\ UNCHANGED <<students, tables>>
              /\ last' = Report("edit_table", id, "capacity")
         ELSE IF new_table_number # old /\ TablesNumbered(tables, new_table_number) # {}
         THEN /\ UNCHANGED <<students, tables>>
              /\ last' = Report("edit_table", id, "exists")
         ELSE /\ students' = moved
              /\ tables' = [tables EXCEPT ![id] =
                              [table_number |-> new_table_number,
                               capacity |-> new_capacity,
                               current_count |->
                                 Cardinality(StudentsAt(moved, new_table_number))]]
              /\ last' = Report("edit_table", id, "ok")

\* the handler without the loop of lines 603-605 that unassigns the students
delete_table_keepstudents(id) ==
  /\ id \in DOMAIN tables
  /\ tables' = Without(tables, {id})
  /\ last' = Report("delete_table", id, "ok")
  /\ UNCHANGED <<students, terms, weekly, daily>>

delete_table(id) ==
  /\ id \in DOMAIN tables
  /\ students' = [s \in DOMAIN students |->
                    IF students[s].table_number = tables[id].table_number
                    THEN [students[s] EXCEPT !.table_number = NULL]
                    ELSE students[s]]
  /\ tables' = Without(tables, {id})
  /\ last' = Report("delete_table", id, "ok")
  /\ UNCHANGED <<terms, weekly, daily>>

redistribute ==
  LET cleared == [s \in DOMAIN students |-> [students[s] EXCEPT !.table_number = NULL]]
      zeroed == [t \in DOMAIN tables |-> [tables[t] EXCEPT !.current_count = 0]]
  IN  /\ UNCHANGED <<terms, weekly, daily>>
      /\ IF DOMAIN tables = {}
         THEN /\ UNCHANGED <<students, tables>>
              /\ last' = Report("redistribute", 0, "no tables")
         ELSE \E out \in distribute_students_to_tables_smart(cleared, zeroed) :
                /\ students' = out.students
                /\ tables' = out.tables
                /\ last' = ReportX("redistribute", 0, "distributed", out.remaining)

clear_students ==
  /\ students' = <<>>
  /\ last' = Report("clear_students", 0, "ok")
  /\ UNCHANGED <<tables, terms, weekly, daily>>

(***************************************************************************)
(* Duty Roster Generator                                                   *)
(***************************************************************************)
PoolSize  == 28
DaysPerWeek == 7
Shifts == <<"AM", "PM">>

\* a test that lets every table through to the pool
NoTableStudents_never(table_students) == FALSE

\* lines 159 and 875: "if not table_students", the week is skipped or refused
NoTableStudents(table_students) == table_students = {}

\* the passes of "while len(student_pool) < 28" for a pool of len entries
\* extended by n entries a pass, counted from runs; the count stops past
\* PoolSize, which no ending loop reaches
RECURSIVE PoolLoopRuns(_, _, _)
PoolLoopRuns(len, n, runs) ==
  IF len < PoolSize /\ runs <= PoolSize
  THEN PoolLoopRuns(len + n, n, runs + 1)
  ELSE runs

\* "while len(student_pool) < 28: student_pool.extend(table_students)"
RECURSIVE ExtendPool(_, _)
ExtendPool(student_pool, table_students) ==
  IF Len(student_pool) < PoolSize
  THEN ExtendPool(student_pool \o table_students, table_students)
  ELSE student_pool

\* the skip path without its "current_date = week_end + timedelta(days=1)"
SkipAdvance_stuck(week_end) == week_end - 6

\* line 160: the cursor goes to the day after week_end when a week is skipped
SkipAdvance(week_end) == week_end + 1

\* the skip path leaving the loop ("break") instead of going on
AfterSkip_break(w, weeks) == weeks + 1

\* line 161: "continue", the loop goes on with the next week_num
AfterSkip(w, weeks) == w + 1

\* the walk without the "student_index += 1" between the two slots
WeekDuties_noadvance(dd, weekly_assignment_id, week_start, student_pool) ==
  LET base == NextId(dd) - 1
      n == DaysPerWeek * Len(Shifts)
      Row(k) ==
        [weekly_assignment_id |-> weekly_assignment_id,
         date |-> week_start + (k \div Len(Shifts)),
         shift |-> Shifts[(k % Len(Shifts)) + 1],
         student1_id |-> student_pool[((2 * k) % Len(student_pool)) + 1],
         student2_id |-> student_pool[((2 * k) % Len(student_pool)) + 1]]
  IN  [d \in DOMAIN dd \union (base + 1 .. base + n) |->
         IF d \in DOMAIN dd THEN dd[d] ELSE Row(d - base - 1)]

\* the 14 DailyDuty rows of one week, walking the pool two entries a duty;
\* the rows are inserted in this order, each under the next free key
WeekDuties(dd, weekly_assignment_id, week_start, student_pool) ==
  LET base == NextId(dd) - 1
      n == DaysPerWeek * Len(Shifts)
      Row(k) ==
        [weekly_assignment_id |-> weekly_assignment_id,
         date |-> week_start + (k \div Len(Shifts)),
         shift |-> Shifts[(k % Len(Shifts)) + 1],
         student1_id |-> student_pool[((2 * k) % Len(student_pool)) + 1],
         student2_id |-> student_pool[((2 * k + 1) % Len(student_pool)) + 1]]
  IN  [d \in DOMAIN dd \union (base + 1 .. base + n) |->
         IF d \in DOMAIN dd THEN dd[d] ELSE Row(d - base - 1)]

\* every student_pool the shuffle and the extension can build for a table
Pools(studs, tn) ==
  LET table_students == SortedSeq(StudentsAt(studs, tn))
  IN  { ExtendPool(p, table_students) : p \in Shuffles(StudentsAt(studs, tn)) }

\* generation without the delete of line 131
ClearTerm_keep(wk, term_id) == wk

\* "WeeklyDutyAssignment.query.filter_by(term_id=term_id).delete()": a bulk
\* DELETE statement.  It removes the weekly rows only: the ORM cascade of
\* daily_duties does not run for a query delete, and SQLite does not enforce
\* the foreign key.
ClearTerm(wk, term_id) == Without(wk, TermWeeks(wk, term_id))

\* the loop over week_num from w on: every (weekly, daily) it can end with
RECURSIVE GenerateWeeks(_, _, _, _, _, _, _)
GenerateWeeks(term_id, weeks, tabList, w, current_date, wk, dd) ==
  IF w > weeks THEN { [weekly |-> wk, daily |-> dd] }
  ELSE LET week_start == current_date
           week_end == week_start + 6
           tn == tabList[((w - 1) % Len(tabList)) + 1]
           id == NextId(wk)
           wk2 == wk @@ (id :> [term_id |-> term_id,
                                week_number |-> w,
                                table_number |-> tn,
                                start_date |-> week_start,
                                end_date |-> week_end])
       IN  IF NoTableStudents(StudentsAt(students, tn))
           THEN GenerateWeeks(term_id, weeks, tabList, AfterSkip(w, weeks),
                              SkipAdvance(week_end), wk2, dd)
           ELSE UNION { GenerateWeeks(term_id, weeks, tabList, w + 1, week_end + 1,
                                      wk2, WeekDuties(dd, id, week_start, pool))
                        : pool \in Pools(students, tn) }

KeysWithin(rows, cap) == \A k \in DOMAIN rows : k <= cap

\* fault: where the database refuses a write of this call, if anywhere
Faults == {"none", "flush", "commit"}

\* lines 130-200: the generation proper, once the term and a table exist
GenerateSchedule(term_id, fault) ==
  \E out \in GenerateWeeks(term_id, terms[term_id].weeks,
                           SortedSeq(TableNumbers(tables)), 1,
                           terms[term_id].start_date,
                           ClearTerm(weekly, term_id), daily) :
    /\ KeysWithin(out.weekly, MaxWeeklyId)
    /\ KeysWithin(out.daily, MaxDailyId)
    /\ CASE fault = "none" ->
              /\ weekly' = out.weekly
              /\ daily' = out.daily
              /\ last' = ReportX("generate", term_id, "ok",
                            Cardinality(TermWeeks(weekly, term_id)))
         [] fault = "commit" ->
              \* line 196 raises: rollback, (False, "Error: ...")
              /\ UNCHANGED <<weekly, daily>>
              /\ last' = Report("generate", term_id, "Error")
         [] fault = "flush" ->
              \* line 154 raises outside the try: the exception leaves
              \* the function, the session is discarded uncommitted
              /\ UNCHANGED <<weekly, daily>>
              /\ last' = Report("generate", term_id, "raised")

\* the function with the delete of line 131 moved before the table check
\* and committed on the early return
create_duty_schedule_for_term_clearfirst(term_id, fault) ==
  /\ UNCHANGED <<students, tables, terms>>
  /\ IF term_id \notin DOMAIN terms
     THEN /\ UNCHANGED <<weekly, daily>>
          /\ last' = Report("generate", term_id, "Term not found")
     ELSE IF DOMAIN tables = {}
     THEN /\ weekly' = ClearTerm(weekly, term_id)
          /\ UNCHANGED daily
          /\ last' = Report("generate", term_id, "No tables available")
     ELSE GenerateSchedule(term_id, fault)

create_duty_schedule_for_term(term_id, fault) ==
  /\ UNCHANGED <<students, tables, terms>>
  /\ IF term_id \notin DOMAIN terms
     THEN /\ UNCHANGED <<weekly, daily>>
          /\ last' = Report("generate", term_id, "Term not found")
     ELSE IF DOMAIN tables = {}
     THEN /\ UNCHANGED <<weekly, daily>>
          /\ last' = Report("generate", term_id, "No tables available")
     ELSE GenerateSchedule(term_id, fault)

\* the delete of line 879 without its filter
ClearWeek_all(dd, weekly_assignment_id) == Without(dd, DOMAIN dd)

\* line 879: "DailyDuty.query.filter_by(weekly_assignment_id=...).delete()"
ClearWeek(dd, weekly_assignment_id) ==
  Without(dd, DutiesOf(dd, weekly_assignment_id))

\* the handler with the delete of line 879 moved before the check of line 875
regenerate_week_clearfirst(weekly_assignment_id) ==
  /\ UNCHANGED <<students, tables, terms, weekly>>
  /\ IF weekly_assignment_id \notin DOMAIN weekly
     THEN /\ UNCHANGED daily
          /\ last' = Report("regenerate_week", weekly_assignment_id, "not found")
     ELSE IF NoTableStudents(StudentsAt(students, weekly[weekly_assignment_id].table_number))
     THEN /\ daily' = ClearWeek(daily, weekly_assignment_id)
          /\ last' = Report("regenerate_week", weekly_assignment_id, "no students")
     ELSE \E pool \in Pools(students, weekly[weekly_assignment_id].table_number) :
            LET kept == ClearWeek(daily, weekly_assignment_id)
                new == WeekDuties(kept, weekly_assignment_id,
                                  weekly[weekly_assignment_id].start_date, pool)
            IN  /\ KeysWithin(new, MaxDailyId)
                /\ daily' = new
                /\ last' = Report("regenerate_week", weekly_assignment_id, "ok")

regenerate_week(weekly_assignment_id) ==
  /\ UNCHANGED <<students, tables, terms, weekly>>
  /\ IF weekly_assignment_id \notin DOMAIN weekly
     THEN /\ UNCHANGED daily
          /\ last' = Report("regenerate_week", weekly_assignment_id, "not found")
     ELSE IF NoTableStudents(StudentsAt(students, weekly[weekly_assignment_id].table_number))
     THEN /\ UNCHANGED daily
          /\ last' = Report("regenerate_week", weekly_assignment_id, "no students")
     ELSE \E pool \in Pools(students, weekly[weekly_assignment_id].table_number) :
            LET kept == ClearWeek(daily, weekly_assignment_id)
                new == WeekDuties(kept, weekly_assignment_id,
                                  weekly[weekly_assignment_id].start_date, pool)
            IN  /\ KeysWithin(new, MaxDailyId)
                /\ daily' = new
                /\ last' = Report("regenerate_week", weekly_assignment_id, "ok")

\* lines 881-909 for one outcome student_pool of the shuffle of line 883:
\* the week's rows are deleted and written again from the extended pool
fill_week(weekly_assignment_id, student_pool) ==
  LET tn == weekly[weekly_assignment_id].table_number
      table_students == SortedSeq(StudentsAt(students, tn))
      kept == ClearWeek(daily, weekly_assignment_id)
      new == WeekDuties(kept, weekly_assignment_id,
                        weekly[weekly_assignment_id].start_date,
                        ExtendPool(student_pool, table_students))
  IN  /\ weekly_assignment_id \in DOMAIN weekly
      /\ ~NoTableStudents(StudentsAt(students, tn))
      /\ KeysWithin(new, MaxDailyId)
      /\ daily' = new
      /\ last' = Report("regenerate_week", weekly_assignment_id, "ok")
      /\ UNCHANGED <<students, tables, terms, weekly>>

\* a count that adds the rows of slot 1 and the rows of slot 2
get_student_duty_count_twice(student_id, term_id) ==
  LET weekly_ids == { k \in DOMAIN weekly : weekly[k].term_id = term_id }
  IN    Cardinality({ d \in DOMAIN daily :
                        /\ daily[d].weekly_assignment_id \in weekly_ids
                        /\ daily[d].student1_id = student_id })
      + Cardinality({ d \in DOMAIN daily :
                        /\ daily[d].weekly_assignment_id \in weekly_ids
                        /\ daily[d].student2_id = student_id })

\* lines 202-212: the rows whose key is among the term's weekly ids and
\* whose slot 1 or slot 2 is the student
get_student_duty_count(student_id, term_id) ==
  LET weekly_ids == { k \in DOMAIN weekly : weekly[k].term_id = term_id }
  IN  Cardinality({ d \in DOMAIN daily :
                      /\ daily[d].weekly_assignment_id \in weekly_ids
                      /\ \/ daily[d].student1_id = student_id
                         \/ daily[d].student2_id = student_id })

\* line 730: "'on_track' if duty_count >= active_term.weeks - 1 else 'under'"
AnalyticsStatus(duty_count, weeks) ==
  IF duty_count >= weeks - 1 THEN "on_track" ELSE "under"

\* lines 716-733: student_stats of the analytics page, by student key; no
\* row when no term is active.  first() of the active terms is the one with
\* the lowest key.
duty_analytics ==
  LET active == { t \in DOMAIN terms : terms[t].is_active }
      listed == { s \in DOMAIN students : students[s].table_number # NULL }
  IN  IF active = {} THEN <<>>
      ELSE LET active_term == Min(active)
           IN  [s \in listed |->
                  [duty_count |-> get_student_duty_count(s, active_term),
                   expected |-> terms[active_term].weeks,
                   status |-> AnalyticsStatus(
                                get_student_duty_count(s, active_term),
                                terms[active_term].weeks)]]

\* a slot update that writes the student into both slots
SetSlot_both(duty, slot, student_id) ==
  [duty EXCEPT !.student1_id = student_id, !.student2_id = student_id]

\* lines 829-832: "duty.student1_id = student_id if student_id else None",
\* or the same for student2_id
SetSlot(duty, slot, student_id) ==
  LET value == IF student_id # 0 THEN student_id ELSE NULL
  IN  IF slot = "student1"
      THEN [duty EXCEPT !.student1_id = value]
      ELSE [duty EXCEPT !.student2_id = value]

update_duty(duty_id, slot, student_id) ==
  /\ UNCHANGED <<students, tables, terms, weekly>>
  /\ IF duty_id \notin DOMAIN daily
     THEN /\ UNCHANGED daily
          /\ last' = ReportX("update_duty", duty_id, "Duty not found",
                        <<slot, student_id>>)
     ELSE IF slot = "student1" \/ slot = "student2"
     THEN /\ daily' = [daily EXCEPT ![duty_id] = SetSlot(@, slot, student_id)]
          /\ last' = ReportX("update_duty", duty_id, "ok", <<slot, student_id>>)
     ELSE /\ UNCHANGED daily
          /\ last' = ReportX("update_duty", duty_id, "Invalid slot",
                        <<slot, student_id>>)

\* add_term activating the new term without lines 763-764
Deactivate_none(trms, is_active) == trms

\* lines 763-764: "if is_active: Term.query.update({'is_active': False})"
Deactivate(trms, is_active) ==
  [t \in DOMAIN trms |->
     IF is_active THEN [trms[t] EXCEPT !.is_active = FALSE] ELSE trms[t]]

add_term(start_date, weeks, is_active) ==
  /\ UNCHANGED <<students, tables, weekly, daily>>
  /\ IF weeks = 0
     THEN /\ UNCHANGED terms
          /\ last' = Report("add_term", 0, "required")
     ELSE /\ NextId(terms) <= MaxTermId
          /\ terms' = Deactivate(terms, is_active)
                      @@ (NextId(terms) :>
                            [start_date |-> start_date,
                             end_date |-> start_date + 7 * weeks,
                             weeks |-> weeks,
                             is_active |-> is_active])
          /\ last' = Report("add_term", NextId(terms), "ok")

\* db.session.delete(term): the ORM cascade deletes the weekly assignments the
\* term has now, and with each the daily duties that carry its key
delete_term(id) ==
  LET gone == TermWeeks(weekly, id)
  IN  /\ id \in DOMAIN terms
      /\ terms' = Without(terms, {id})
      /\ weekly' = Without(weekly, gone)
      /\ daily' = Without(daily, { d \in DOMAIN daily :
                                     daily[d].weekly_assignment_id \in gone })
      /\ last' = Report("delete_term", id, "ok")
      /\ UNCHANGED <<students, tables>>

(***************************************************************************)
(* Specifications                                                          *)
(***************************************************************************)
\* Spec: the roster handlers over a seated store with two terms.  The store
\* of InitRoster is the one after add_table(1, 2), an upload of S1 and S2,
\* add_term(3, 1, on) and add_term(0, 2, on), and then either
\* change_student_table(2, 0) (one table, S2 unseated), or add_table(2, 2) and
\* change_student_table(2, 2) (two tables, a student on each).
RosterStudent(sid, gender, country, tn) ==
  [student_id |-> sid, grade |-> 7, gender |-> gender, country |-> country,
   table_number |-> tn]

RosterTable(tn, count) == [table_number |-> tn, capacity |-> 2, current_count |-> count]

InitRoster ==
  /\ \/ /\ students = (1 :> RosterStudent("S1", "F", "SG", 1))
                   @@ (2 :> RosterStudent("S2", "M", "VN", NULL))
        /\ tables = (1 :> RosterTable(1, 1))
     \/ /\ students = (1 :> RosterStudent("S1", "F", "SG", 1))
                   @@ (2 :> RosterStudent("S2", "M", "VN", 2))
        /\ tables = (1 :> RosterTable(1, 1)) @@ (2 :> RosterTable(2, 1))
  /\ terms = (1 :> [start_date |-> 3, end_date |-> 10, weeks |-> 1, is_active |-> FALSE])
          @@ (2 :> [start_date |-> 0, end_date |-> 14, weeks |-> 2, is_active |-> TRUE])
  /\ weekly = <<>>
  /\ daily = <<>>
  /\ last = Report("change_student_table", 0, "ok")

MoveInputs == { <<1, 0>>, <<1, 1>>, <<2, 0>>, <<2, 1>>, <<2, 2>> }
DutyIdInputs == {1}
SlotInputs == {"student1"}
StudentIdInputs == {NULL}

Next ==
  \/ \E m \in MoveInputs : change_student_table(m[1], m[2])
  \/ \E t \in DOMAIN terms : create_duty_schedule_for_term(t, "none")
  \/ \E k \in DOMAIN weekly : regenerate_week(k)
  \/ \E d \in DutyIdInputs, sl \in SlotInputs, s \in StudentIdInputs : update_duty(d, sl, s)
  \/ \E t \in DOMAIN terms : delete_term(t)

Spec == InitRoster /\ [][Next]_vars

\* SpecStore: the student and table handlers from the empty database
NextStore ==
  \/ \E batch \in Batches : upload(batch)
  \/ \E f \in TableForms : add_table(f[1], f[2])
  \/ \E t \in DOMAIN tables, f \in TableForms : edit_table(t, f[1], f[2])
  \/ \E t \in DOMAIN tables : delete_table(t)
  \/ \E s \in DOMAIN students, tn \in TableNumberInputs : change_student_table(s, tn)
  \/ redistribute
  \/ clear_students

SpecStore == Init /\ [][NextStore]_vars

\* SpecFault: terms are added and generated while the database may refuse a
\* write of the generation
InitFault ==
  /\ students = (1 :> RosterStudent("S1", "F", "SG", 1))
  /\ tables = (1 :> RosterTable(1, 1)) @@ (2 :> RosterTable(2, 0))
  /\ terms = <<>>
  /\ weekly = <<>>
  /\ daily = <<>>
  /\ last = ReportX("upload", 1, "distributed", 0)

FaultMoveInputs == { <<1, 0>>, <<1, 1>> }
TermInputs == { [start_date |-> 0, weeks |-> 2], [start_date |-> 3, weeks |-> 1],
                [start_date |-> 0, weeks |-> 0] }

NextFault ==
  \/ \E m \in FaultMoveInputs : change_student_table(m[1], m[2])
  \/ \E i \in TermInputs, a \in BOOLEAN : add_term(i.start_date, i.weeks, a)
  \/ \E t \in DOMAIN terms, f \in Faults : create_duty_schedule_for_term(t, f)

SpecFault == InitFault /\ [][NextFault]_vars

\* SpecTerms: terms are added, generated and deleted, and tables deleted,
\* over the seated store of InitFault; generate is also asked for term ids
\* that do not exist
TermIdInputs == {1, 2}

NextTerms ==
  \/ \E i \in TermInputs, a \in BOOLEAN : add_term(i.start_date, i.weeks, a)
  \/ \E t \in DOMAIN terms : delete_term(t)
  \/ \E t \in TermIdInputs : create_duty_schedule_for_term(t, "none")
  \/ \E t \in DOMAIN tables : delete_table(t)

SpecTerms == InitFault /\ [][NextTerms]_vars

\* SpecDistribute: the distributor is called on every store that imports
\* and table additions and deletions build from the empty database
NextDistribute ==
  \/ \E batch \in Batches : upload(batch)
  \/ \E f \in TableForms : add_table(f[1], f[2])
  \/ \E t \in DOMAIN tables : delete_table(t)
  \/ distribute

SpecDistribute == Init /\ [][NextDistribute]_vars

\* SpecDuty: one week of duties for a table of two students is generated,
\* regenerated and edited slot by slot.  The store of InitDuty is the one
\* after add_table(1, 2), an upload of S1 and S2 and add_term(0, 1, on).
InitDuty ==
  /\ students = (1 :> RosterStudent("S1", "F", "SG", 1))
              @@ (2 :> RosterStudent("S2", "M", "VN", 1))
  /\ tables = (1 :> RosterTable(1, 2))
  /\ terms = (1 :> [start_date |-> 0, end_date |-> 7, weeks |-> 1, is_active |-> TRUE])
  /\ weekly = <<>>
  /\ daily = <<>>
  /\ last = Report("add_term", 1, "ok")

\* the JSON bodies posted to /duty/update: duty_id, slot, student_id
DutyEdits ==
  { <<1, "student1", NULL>>, <<1, "student1", 2>>, <<1, "student2", 1>>,
    <<2, "student2", NULL>>, <<2, "student1", 9>>, <<1, "student3", 1>>,
    <<2, "", NULL>>, <<30, "student1", 1>> }

NextDuty ==
  \/ \E t \in DOMAIN terms : create_duty_schedule_for_term(t, "none")
  \/ \E k \in DOMAIN weekly : regenerate_week(k)
  \/ \E e \in DutyEdits : update_duty(e[1], e[2], e[3])

SpecDuty == InitDuty /\ [][NextDuty]_vars

\* SpecWeek: the one week of a term is generated and regenerated for a
\* table of up to three students, and regenerate_week is also asked for
\* keys no weekly assignment has.  The store of InitWeek is the one after
\* add_table(1, 3), an upload of S1, S2 and S3 and add_term(0, 1, on).
InitWeek ==
  /\ students = (1 :> RosterStudent("S1", "F", "SG", 1))
              @@ (2 :> RosterStudent("S2", "M", "VN", 1))
              @@ (3 :> RosterStudent("S3", "F", "VN", 1))
  /\ tables = (1 :> [table_number |-> 1, capacity |-> 3, current_count |-> 3])
  /\ terms = (1 :> [start_date |-> 0, end_date |-> 7, weeks |-> 1, is_active |-> TRUE])
  /\ weekly = <<>>
  /\ daily = <<>>
  /\ last = Report("add_term", 1, "ok")

WeekIdInputs == {1, 2}
WeekMoveInputs == { <<1, 0>>, <<1, 1>>, <<2, 0>>, <<2, 1>>, <<3, 0>>, <<3, 1>> }

NextWeek ==
  \/ \E t \in DOMAIN terms : create_duty_schedule_for_term(t, "none")
  \/ \E k \in WeekIdInputs : regenerate_week(k)
  \/ \E m \in WeekMoveInputs : change_student_table(m[1], m[2])

SpecWeek == InitWeek /\ [][NextWeek]_vars

\* SpecPool: the week's 28 slots are filled from tables of 1 to 30 students.
\* From InitWeek (three students) the handlers run with every outcome of the
\* shuffle.  The larger stores have too many shuffles to enumerate: there the
\* week is filled from the rotations of the table's students, as a sample of
\* the shuffle's outcomes.  The store of InitPool for n students is the one
\* after add_table(1, n), add_term(0, 1, on), a generate of the term (the
\* table still empty), an upload of n students and a change_student_table.
PoolTableSizes == {1, 2, 4, 5, 27, 28, 29, 30}

InitPool ==
  \/ InitWeek
  \/ \E n \in PoolTableSizes :
       /\ students = [s \in 1..n |-> RosterStudent(ToString(s), "F", "SG", 1)]
       /\ tables = (1 :> [table_number |-> 1, capacity |-> n, current_count |-> n])
       /\ terms = (1 :> [start_date |-> 0, end_date |-> 7, weeks |-> 1,
                         is_active |-> TRUE])
       /\ weekly = (1 :> [term_id |-> 1, week_number |-> 1, table_number |-> 1,
                          start_date |-> 0, end_date |-> 6])
       /\ daily = <<>>
       /\ last = Report("change_student_table", 0, "ok")

\* the list turned by r places, for every r
Rotations(seq) ==
  { [i \in 1..Len(seq) |-> seq[((i - 1 + r) % Len(seq)) + 1]] : r \in 0..(Len(seq) - 1) }

NextPool ==
  \/ /\ Cardinality(DOMAIN students) = 3
     /\ NextWeek
  \/ /\ Cardinality(DOMAIN students) # 3
     /\ \E k \in DOMAIN weekly :
          \E p \in Rotations(SortedSeq(StudentsAt(students, weekly[k].table_number))) :
            fill_week(k, p)

SpecPool == InitPool /\ [][NextPool]_vars

(***************************************************************************)
(* Claims                                                                  *)
(***************************************************************************)
GenerateDone(l) == l.op = "generate" /\ l.ret = "ok"

\* C1: a generate(term) on a term that already has a schedule leaves none of
\* the DailyDuty rows the earlier calls wrote for the term: the rows attached
\* to the term's weeks before the call are gone, the rows attached to its
\* weeks after the call are all rows of this call, and no row carries the key
\* of a weekly assignment the call deleted.
C1_GenerateReplacesTerm ==
  [][ GenerateDone(last') =>
        /\ \A d \in DOMAIN daily :
             daily[d].weekly_assignment_id \in TermWeeks(weekly, last'.arg)
               => d \notin DOMAIN daily'
        /\ \A d \in DOMAIN daily' :
             daily'[d].weekly_assignment_id \in TermWeeks(weekly', last'.arg)
               => d \notin DOMAIN daily
        /\ \A d \in DOMAIN daily' :
             daily'[d].weekly_assignment_id
               \notin (TermWeeks(weekly, last'.arg) \ DOMAIN weekly') ]_vars

Distributed(l) == l.op \in {"upload", "redistribute"} /\ l.ret = "distributed"

\* C2: after a distribution (full, or of newly imported students while the
\* tables have members) and after a successful change_student_table, every
\* table's current_count is the number of students on that table.
C2_CurrentCountMatches ==
  (Distributed(last) \/ (last.op = "change_student_table" /\ last.ret = "ok")) =>
    \A t \in DOMAIN tables :
      tables[t].current_count
        = Cardinality(StudentsAt(students, tables[t].table_number))

\* C3: after generate(term), every weekly assignment of the term whose table
\* has a student carries exactly 14 DailyDuty rows, one for each of the 7
\* dates of its window and each shift, with both slots filled.
C3_FourteenDutiesPerWeek ==
  [][ GenerateDone(last') =>
        \A k \in TermWeeks(weekly', last'.arg) :
          StudentsAt(students, weekly'[k].table_number) # {} =>
            /\ Cardinality(DutiesOf(daily', k)) = 14
            /\ \A day \in weekly'[k].start_date .. weekly'[k].end_date :
                 \A sh \in {"AM", "PM"} :
                   Cardinality({ d \in DutiesOf(daily', k) :
                                   daily'[d].date = day /\ daily'[d].shift = sh }) = 1
            /\ \A d \in DutiesOf(daily', k) :
                 daily'[d].student1_id # NULL /\ daily'[d].student2_id # NULL ]_vars

\* C4: after delete_term(t) no weekly assignment of t is left and every
\* DailyDuty row that remains belongs to a weekly assignment that exists.
C4_DeleteTermLeavesNoOrphans ==
  (last.op = "delete_term" /\ last.ret = "ok") =>
    /\ TermWeeks(weekly, last.arg) = {}
    /\ \A d \in DOMAIN daily : daily[d].weekly_assignment_id \in DOMAIN weekly

\* C5: after distribute_students_to_tables_smart with at least one table no
\* student is unassigned, every student's table_number is the number of an
\* existing table, and the greedy step left nobody to the fallback.
C5_EveryStudentSeated ==
  Distributed(last) =>
    /\ \A s \in DOMAIN students :
         /\ students[s].table_number # NULL
         /\ students[s].table_number \in TableNumbers(tables)
    /\ last.extra = 0

\* two unassigned students are distributed over two tables
C5_Witness ==
  /\ Distributed(last)
  /\ last.op = "upload" /\ last.arg = 2
  /\ Cardinality(DOMAIN tables) = 2

\* C6: after generate(term) the term of W weeks has exactly W weekly
\* assignments, one for each week number 1..W, and week w is on
\* tables[(w-1) mod T] of the tables in ascending table_number order.
C6_RoundRobinWeeks ==
  GenerateDone(last) =>
    LET t == last.arg
        W == terms[t].weeks
        tabList == SortedSeq(TableNumbers(tables))
    IN  /\ Cardinality(TermWeeks(weekly, t)) = W
        /\ \A w \in 1..W :
             \E k \in TermWeeks(weekly, t) :
               /\ weekly[k].week_number = w
               /\ weekly[k].table_number = tabList[((w - 1) % Len(tabList)) + 1]

\* a term with a schedule is generated again: two weeks over one table, so
\* the rotation wraps
C6_Witness ==
  /\ GenerateDone(last)
  /\ last.extra > 0
  /\ terms[last.arg].weeks = 2
  /\ Cardinality(DOMAIN tables) = 1

\* C7: week w of a term starts at term.start_date + 7*(w-1) and ends 6 days
\* later, so week w+1 starts the day after week w ends and no two weeks of a
\* term share a date, also when the table of a week has no students.
C7_ContiguousWindows ==
  /\ \A k \in DOMAIN weekly :
       /\ weekly[k].term_id \in DOMAIN terms
       /\ weekly[k].start_date
            = terms[weekly[k].term_id].start_date + 7 * (weekly[k].week_number - 1)
       /\ weekly[k].end_date = weekly[k].start_date + 6
  /\ \A j, k \in DOMAIN weekly :
       (weekly[j].term_id = weekly[k].term_id) =>
         /\ (weekly[k].week_number = weekly[j].week_number + 1
               => weekly[k].start_date = weekly[j].end_date + 1)
         /\ (j # k => \/ weekly[j].end_date < weekly[k].start_date
                      \/ weekly[k].end_date < weekly[j].start_date)

\* a two-week term is generated while the table of its first week is empty
C7_Witness ==
  /\ GenerateDone(last)
  /\ terms[last.arg].weeks = 2
  /\ \E k \in TermWeeks(weekly, last.arg) :
       /\ weekly[k].week_number = 1
       /\ StudentsAt(students, weekly[k].table_number) = {}

\* C8: every DailyDuty row attached to an existing weekly assignment has its
\* date inside that assignment's window and a shift of AM or PM.
C8_DutyInsideWindow ==
  \A d \in DOMAIN daily :
    daily[d].weekly_assignment_id \in DOMAIN weekly =>
      /\ weekly[daily[d].weekly_assignment_id].start_date <= daily[d].date
      /\ daily[d].date <= weekly[daily[d].weekly_assignment_id].end_date
      /\ daily[d].shift \in {"AM", "PM"}

\* C9: a successful regenerate_week on weekly assignment k leaves students,
\* tables, terms and all weekly assignments as they were, and every DailyDuty
\* row of another weekly assignment is the same row before and after.
C9_RegenerateWeekFrame ==
  [][ (last'.op = "regenerate_week" /\ last'.ret = "ok") =>
        /\ students' = students /\ tables' = tables /\ terms' = terms
        /\ weekly' = weekly
        /\ \A d \in DOMAIN daily :
             daily[d].weekly_assignment_id # last'.arg
               => d \in DOMAIN daily' /\ daily'[d] = daily[d]
        /\ \A d \in DOMAIN daily' :
             daily'[d].weekly_assignment_id # last'.arg
               => d \in DOMAIN daily /\ daily[d] = daily'[d] ]_vars

\* a week is regenerated while another week of the same term and a week of
\* the other term hold duties
C9_Witness ==
  /\ last.op = "regenerate_week" /\ last.ret = "ok"
  /\ \E j, k \in DOMAIN weekly :
       /\ j # last.arg /\ k # last.arg
       /\ weekly[j].term_id = weekly[last.arg].term_id
       /\ weekly[k].term_id # weekly[last.arg].term_id
       /\ DutiesOf(daily, k) # {}

\* C10: when a write of generate(term) fails, the store is what it was before
\* the call and the call returns a failure status; it does not raise.
C10_FailedGenerateReports ==
  [][ (last'.op = "generate" /\ last'.ret \in {"Error", "raised"}) =>
        /\ students' = students /\ tables' = tables /\ terms' = terms
        /\ weekly' = weekly /\ daily' = daily
        /\ last'.ret = "Error" ]_vars

ActiveTerms(trms) == { t \in DOMAIN trms : trms[t].is_active }

\* C11: whatever add_term and delete_term calls were made, at most one term
\* is active, and right after an add_term with is_active on the new term is
\* the only active one.
C11_AtMostOneActiveTerm ==
  /\ Cardinality(ActiveTerms(terms)) <= 1
  /\ (last.op = "add_term" /\ last.ret = "ok" /\ terms[last.arg].is_active)
       => ActiveTerms(terms) = {last.arg}

\* a term is added as active next to an older term
C11_Witness ==
  /\ last.op = "add_term" /\ last.ret = "ok"
  /\ terms[last.arg].is_active
  /\ Cardinality(DOMAIN terms) = 2

\* C12: distribute_students_to_tables_smart called while no table exists
\* returns failure, and no student's table_number and nothing else in the
\* store is changed by the call.
C12_NoTablesNoChange ==
  [][ (last'.op = "distribute" /\ DOMAIN tables = {}) =>
        /\ last'.ret = "No tables available"
        /\ students' = students /\ tables' = tables /\ terms' = terms
        /\ weekly' = weekly /\ daily' = daily ]_vars

\* the distributor was called with unassigned students and no table
C12_Witness ==
  /\ last.op = "distribute" /\ last.ret = "No tables available"
  /\ DOMAIN tables = {}
  /\ StudentsAt(students, NULL) # {}

\* C13: generate(term_id) for a term that does not exist, or while no table
\* exists, returns a failure status and leaves the whole store as it was; the
\* weekly assignments the term already has are not deleted.
C13_GenerateMissingPrerequisite ==
  [][ (last'.op = "generate"
         /\ (last'.arg \notin DOMAIN terms \/ DOMAIN tables = {})) =>
        /\ last'.ret \in {"Term not found", "No tables available"}
        /\ students' = students /\ tables' = tables /\ terms' = terms
        /\ weekly' = weekly /\ daily' = daily ]_vars

\* generate failed for lack of a table on a term that has a schedule
C13_Witness ==
  /\ last.op = "generate" /\ last.ret = "No tables available"
  /\ TermWeeks(weekly, last.arg) # {}
  /\ DutiesOf(daily, Min(TermWeeks(weekly, last.arg))) # {}

\* C14: a successful generate(term) has a weekly assignment for every week
\* 1..W of the term; for a week whose table has no students the call creates
\* the weekly assignment and no DailyDuty row, and the weeks after it are
\* generated all the same, with their 14 new rows where the table has
\* students.
C14_EmptyWeekIsSkipped ==
  [][ GenerateDone(last') =>
        LET t == last'.arg
            created == DOMAIN daily' \ DOMAIN daily
        IN  \A w \in 1..terms[t].weeks :
              \E k \in TermWeeks(weekly', t) :
                /\ weekly'[k].week_number = w
                /\ IF StudentsAt(students, weekly'[k].table_number) = {}
                   THEN created \cap DutiesOf(daily', k) = {}
                   ELSE Cardinality(created \cap DutiesOf(daily', k)) = 14 ]_vars

\* a two-week term is generated: the table of week 1 is empty, week 2 follows
\* with its duties
C14_Witness ==
  /\ GenerateDone(last)
  /\ \E j, k \in TermWeeks(weekly, last.arg) :
       /\ weekly[j].week_number = 1 /\ weekly[k].week_number = 2
       /\ StudentsAt(students, weekly[j].table_number) = {}
       /\ DutiesOf(daily, j) = {}
       /\ DutiesOf(daily, k) # {}

\* C15: a successful update_duty(duty_id, slot, student_id) changes one
\* thing: the named slot of that DailyDuty becomes the given student id, or
\* empty when none is given; the other slot, date, shift and parent of the
\* row, every other DailyDuty and the rest of the store stay as they were.  A
\* slot other than student1/student2 or an unknown duty_id is reported as an
\* error and changes nothing.
C15_UpdateDutyFrame ==
  [][ last'.op = "update_duty" =>
        LET d == last'.arg
            slot == last'.extra[1]
            student_id == last'.extra[2]
            valid == d \in DOMAIN daily /\ slot \in {"student1", "student2"}
        IN  /\ students' = students /\ tables' = tables /\ terms' = terms
            /\ weekly' = weekly
            /\ (last'.ret = "ok") = valid
            /\ IF valid
               THEN /\ DOMAIN daily' = DOMAIN daily
                    /\ \A e \in DOMAIN daily \ {d} : daily'[e] = daily[e]
                    /\ daily'[d] =
                         IF slot = "student1"
                         THEN [daily[d] EXCEPT !.student1_id = student_id]
                         ELSE [daily[d] EXCEPT !.student2_id = student_id]
               ELSE daily' = daily ]_vars

\* slot 2 of a duty was set to a student while slot 1 holds another
C15_Witness ==
  /\ last.op = "update_duty" /\ last.ret = "ok"
  /\ last.extra = <<"student2", 1>>
  /\ daily[last.arg].student2_id = 1
  /\ daily[last.arg].student1_id = 2

C17_CurrentCountAfterOtherOps ==
  (\/ last.op = "edit_table" /\ last.ret = "ok"
   \/ last.op \in {"delete_table", "clear_students", "redistribute", "upload"}) =>
    \A t \in DOMAIN tables :
      tables[t].current_count
        = Cardinality(StudentsAt(students, tables[t].table_number))

\* the weighted collision count of student s against a set of members
Collisions(studs, members, s) ==
    3 * Cardinality({ m \in members : studs[m].grade = studs[s].grade })
  + 2 * Cardinality({ m \in members : studs[m].gender = studs[s].gender })
  + 2 * Cardinality({ m \in members : studs[m].country = studs[s].country })

\* C18: the students a distribution seats can be put in an order of
\* placement in which each one went to a table whose weighted collision
\* count 3*(same grade) + 2*(same gender) + 2*(same country), taken over the
\* members the table had at that moment (the students already on it before
\* the run and those placed on it earlier in the run), is at most 1 above
\* the least such count over all tables.
C18_GreedyWithinJitter ==
  [][ (last'.op \in {"upload", "redistribute", "distribute"}
         /\ last'.ret = "distributed") =>
        LET seated == IF last'.op = "redistribute" THEN {}
                      ELSE { m \in DOMAIN students : students[m].table_number # NULL }
            placed == { m \in DOMAIN students' : students'[m].table_number # NULL }
                        \ seated
            Members(tn, earlier) ==
              { m \in seated \union earlier : students'[m].table_number = tn }
        IN  \E order \in Shuffles(placed) :
              \A i \in DOMAIN order :
                LET earlier == { order[j] : j \in 1..(i - 1) }
                    chosen == students'[order[i]].table_number
                IN  \A tn \in TableNumbers(tables') :
                      Collisions(students', Members(chosen, earlier), order[i])
                        <= Collisions(students', Members(tn, earlier), order[i]) + 1
    ]_vars

\* a schedule in which every DailyDuty row belongs to a weekly assignment
\* that exists
CleanSchedule(wk, dd) == \A d \in DOMAIN dd : dd[d].weekly_assignment_id \in DOMAIN wk

\* C19: with generate(term) and regenerate_week run one after the other,
\* never interleaved (every handler of this model is one atomic step), a
\* clean schedule stays clean: after either operation no DailyDuty row is
\* attached to a weekly assignment id that the generation has deleted.
C19_SerialKeepsScheduleClean ==
  [][ (CleanSchedule(weekly, daily)
         /\ last'.op \in {"generate", "regenerate_week"}) =>
        CleanSchedule(weekly', daily') ]_vars

\* the DailyDuty rows whose parent is a weekly assignment of term t and
\* whose given slot holds student s
RowsInSlot(t, slot, s) ==
  { d \in DOMAIN daily :
      /\ daily[d].weekly_assignment_id \in DOMAIN weekly
      /\ weekly[daily[d].weekly_assignment_id].term_id = t
      /\ daily[d][slot] = s }

\* C20: get_student_duty_count(student, term) is the number of DailyDuty
\* rows under the term's weekly assignments with the student in slot 1 or
\* slot 2: the rows with the student in slot 1 plus those with the student in
\* slot 2, a row with the student in both counted once, rows of other terms
\* not at all.  The analytics status of a student is "under" exactly when
\* that count is below the active term's weeks - 1, and "on_track" otherwise.
C20_DutyCountAndStatus ==
  /\ \A s \in DOMAIN students, t \in DOMAIN terms :
       get_student_duty_count(s, t)
         =   Cardinality(RowsInSlot(t, "student1_id", s))
           + Cardinality(RowsInSlot(t, "student2_id", s))
           - Cardinality(RowsInSlot(t, "student1_id", s)
                           \cap RowsInSlot(t, "student2_id", s))
  /\ \A s \in DOMAIN duty_analytics :
       LET t == CHOOSE a \in ActiveTerms(terms) : TRUE
           n == Cardinality(RowsInSlot(t, "student1_id", s)
                              \union RowsInSlot(t, "student2_id", s))
       IN  /\ (duty_analytics[s].status = "under") = (n < terms[t].weeks - 1)
           /\ (duty_analytics[s].status = "on_track") = ~(n < terms[t].weeks - 1)

\* a listed student holds both slots of a duty of the active term and is on
\* a duty of another term; another listed student has no duty and is "under"
C20_Witness ==
  \E s, u \in DOMAIN duty_analytics :
    \E t \in ActiveTerms(terms), o \in DOMAIN terms :
      /\ o # t
      /\ RowsInSlot(t, "student1_id", s) \cap RowsInSlot(t, "student2_id", s) # {}
      /\ RowsInSlot(o, "student1_id", s) # {}
      /\ duty_analytics[s].status = "on_track"
      /\ duty_analytics[u].status = "under"

\* C21: distribute_students_to_tables_smart called while a table exists and
\* no student is unassigned returns success and changes nothing: every
\* student's table_number and every table's current_count stay as they
\* were.
C21_NothingToDistribute ==
  [][ (last'.op = "distribute" /\ DOMAIN tables # {}
         /\ StudentsAt(students, NULL) = {}) =>
        /\ last'.ret = "distributed"
        /\ students' = students /\ tables' = tables /\ terms' = terms
        /\ weekly' = weekly /\ daily' = daily ]_vars

\* the distributor was called on a store whose students are all seated
C21_Witness ==
  /\ last.op = "distribute" /\ last.ret = "distributed"
  /\ DOMAIN students # {}
  /\ StudentsAt(students, NULL) = {}
  /\ \E t \in DOMAIN tables : tables[t].current_count > 0

\* C22: regenerate_week for a key no weekly assignment has, or for a week
\* whose table has no students now, reports an error and leaves every
\* DailyDuty row as it was, the week's own rows included.
C22_RegenerateWeekErrors ==
  [][ (last'.op = "regenerate_week"
         /\ (\/ last'.arg \notin DOMAIN weekly
             \/ StudentsAt(students, weekly[last'.arg].table_number) = {})) =>
        /\ last'.ret \in {"not found", "no students"}
        /\ students' = students /\ tables' = tables /\ terms' = terms
        /\ weekly' = weekly /\ daily' = daily ]_vars

\* regenerate_week was refused for a week that has duties and whose table
\* has been emptied
C22_Witness ==
  /\ last.op = "regenerate_week" /\ last.ret = "no students"
  /\ DutiesOf(daily, last.arg) # {}

\* the DailyDuty rows a step wrote: the rows under new keys after a
\* generate, the rows of the week after a regenerate_week
Produced(l, dd, dd2) ==
  IF l.op = "generate" THEN DOMAIN dd2 \ DOMAIN dd ELSE DutiesOf(dd2, l.arg)

\* C23: every DailyDuty that generate or regenerate_week produces for a
\* table of at least two students holds two different students in slot 1
\* and slot 2, whatever the shuffle.
C23_TwoDistinctStudents ==
  [][ (last'.op \in {"generate", "regenerate_week"} /\ last'.ret = "ok") =>
        \A d \in Produced(last', daily, daily') :
          LET k == daily'[d].weekly_assignment_id
          IN  Cardinality(StudentsAt(students, weekly'[k].table_number)) >= 2
                => daily'[d].student1_id # daily'[d].student2_id ]_vars

\* how many of the slots of the rows in D hold student s
SlotsHeld(dd, D, s) ==
    Cardinality({ d \in D : dd[d].student1_id = s })
  + Cardinality({ d \in D : dd[d].student2_id = s })

\* C24: the 28 slots that generate or regenerate_week fills for a week from
\* a table of n >= 1 students hold members of the table only; with n <= 28
\* every member holds floor(28/n) or ceil(28/n) of them, with n > 28 exactly
\* 28 different members hold one slot each; whatever the shuffle.
C24_SlotsSharedEvenly ==
  [][ (last'.op \in {"generate", "regenerate_week"} /\ last'.ret = "ok") =>
        \A k \in DOMAIN weekly' :
          LET D == Produced(last', daily, daily') \cap DutiesOf(daily', k)
              members == StudentsAt(students, weekly'[k].table_number)
              n == Cardinality(members)
          IN  D # {} =>
                /\ n >= 1
                /\ \A d \in D : /\ daily'[d].student1_id \in members
                                 /\ daily'[d].student2_id \in members
                /\ IF n <= 28
                   THEN \A s \in members :
                          SlotsHeld(daily', D, s) \in { 28 \div n, (28 + n - 1) \div n }
                   ELSE /\ \A s \in members : SlotsHeld(daily', D, s) <= 1
                        /\ Cardinality({ s \in members :
                                           SlotsHeld(daily', D, s) = 1 }) = 28 ]_vars

\* a week was filled from a table of more than 28 students
C24_Witness ==
  /\ last.op = "regenerate_week" /\ last.ret = "ok"
  /\ Cardinality(StudentsAt(students, weekly[last.arg].table_number)) > 28
  /\ Cardinality(DutiesOf(daily, last.arg)) = 14

\* C25: whatever imports, table additions, edits (renumberings included)
\* and deletions, manual reassignments, distributions and clearings were
\* made, every student's table_number is empty or the number of a table
\* that exists, and no two tables have the same number; a reassignment to a
\* table that does not exist and an add_table or edit_table to a number in
\* use are rejected and leave the store as it was.
C25_TableReferencesValid ==
  [][ /\ \A s \in DOMAIN students' :
           \/ students'[s].table_number = NULL
           \/ students'[s].table_number \in TableNumbers(tables')
      /\ \A t, u \in DOMAIN tables' :
           t # u => tables'[t].table_number # tables'[u].table_number
      /\ (\/ last'.op = "change_student_table" /\ last'.ret = "no table"
          \/ last'.op \in {"add_table", "edit_table"} /\ last'.ret = "exists")
           => /\ students' = students /\ tables' = tables /\ terms' = terms
              /\ weekly' = weekly /\ daily' = daily ]_vars

\* a table with a student on it was deleted while another table has
\* students
C25_Witness ==
  /\ last.op = "delete_table"
  /\ StudentsAt(students, NULL) # {}
  /\ \E t \in DOMAIN tables : StudentsAt(students, tables[t].table_number) # {}

\* C26: a call of distribute_students_to_tables_smart, made directly or at
\* the end of an import, changes the table_number of no student who had a
\* table when it was called, and creates, deletes and renumbers no table.
C26_DistributeKeepsSeated ==
  [][ last'.op \in {"distribute", "upload"} =>
        /\ \A s \in DOMAIN students :
             /\ s \in DOMAIN students'
             /\ students[s].table_number # NULL
                  => students'[s].table_number = students[s].table_number
        /\ DOMAIN tables' = DOMAIN tables
        /\ \A t \in DOMAIN tables :
             /\ tables'[t].table_number = tables[t].table_number
             /\ tables'[t].capacity = tables[t].capacity ]_vars

\* a call placed students on a table that already had some: the count of
\* line 300 covers the placed ones only
C26_Witness ==
  /\ last.op = "distribute"
  /\ last.ret = "distributed"
  /\ \E t \in DOMAIN tables :
       /\ tables[t].current_count > 0
       /\ tables[t].current_count
            < Cardinality(StudentsAt(students, tables[t].table_number))

====
